---------------------------- MODULE Spec2Model ----------------------------
(***************************************************************************)
(* A model of cinnamon_generic: the calibrators (components/calibrator.py),*)
(* the command layer (api/commands.py) and the callbacks                    *)
(* (components/callback.py).                                                *)
(*                                                                          *)
(* Python values that may be None are records with an isNone field, so     *)
(* that every value of one variable has one shape.                          *)
(***************************************************************************)
EXTENDS Integers, Sequences, FiniteSets, TLC

(***************************************************************************)
(* Bounds of the model.                                                     *)
(***************************************************************************)
\* most stages of an ordered pipeline configuration
MaxStages == 4
\* largest explicit order given to add_pipeline_component
MaxOrder == 2
\* most configuration classes reachable from a tunable root configuration
MaxConfigs == 3
\* largest number of mongo workers of the hyperopt calibrator
MaxWorkers == 2
\* longest candidate list of one hyper-parameter in a search space
MaxCand == 2
\* largest max_evaluations of the hyperopt calibrator
MaxEvals == 2
\* most temporary run directories the manager allocates
MaxRuns == 2
\* most child callbacks of a callback pipeline
MaxChildren == 2

VARIABLES
    \* ---- Calibrator (components/calibrator.py) ----
    kind,                \* "grid" (GridSearchCalibrator) or "hyperopt" (HyperOptCalibrator)
    validate_condition,  \* self.validate_condition
    db_name,             \* self.db_name (hyperopt), may be None
    use_mongo,           \* self.use_mongo (hyperopt)
    max_evaluations,     \* self.max_evaluations (hyperopt)
    validator,           \* self.validator: None or the shared validator (its config values)
    validator_args,      \* self.validator_args: None or a dict
    search_space,        \* what validator.config.get_search_space() returns
    validator0,          \* the validator as it was when set_validator stored it
    pc,                  \* position of the calibrator's caller
    combinations,        \* run: the enumerated combinations
    idx,                 \* run: index of the next combination of the loop
    calibration_results, \* run: the (score, combination) pairs collected so far
    evalLog,             \* run: the parameter_combination of every evaluate_combination call
    lastEval,            \* the last evaluate_combination call: what ran, its metric, its outcome
    outcome,             \* how the last run ended
    trials,              \* hyperopt: the trial store in use
    best_trial,          \* hyperopt: the best-trial record run returns
    pickle_file,         \* hyperopt: the file {db_name}.pickle in mongo_directory
    workers,             \* self.workers (hyperopt with mongo)
    driver,              \* mongo run: the process running _mongo_calibrate, and its best
    queue,               \* mongo run: main_calibrator_queue
    workers_results,     \* mongo run: the submitted _run_mongo_worker tasks, each with its state
    mongo_best,          \* mongo run: what the caller took from the queue
    \* ---- Command layer (api/commands.py) and the manager it uses ----
    fs,                  \* the run directories that exist on disk
    metadata,            \* the routine directories that hold command_metadata.json
    runs_registry,       \* file_manager.runs_registry: temporary path k -> final path
    tracked,             \* what track_run recorded: registration key -> path
    cmd,                 \* the last command: its error, its events and its calls
    \* ---- Callbacks (components/callback.py) ----
    callbacks,           \* self.callbacks of the CallbackPipeline: its children, in order
    cb,                  \* the run call, if it was the last call: arguments, calls made, error
    gd,                  \* the guarded call, if it was the last call: what it fired and returned
    \* ---- Configurations (configurations/pipeline.py) ----
    pipeline_fields,     \* OrderedPipelineConfig: the names of its pipeline-tagged fields
    ordering,            \* OrderedPipelineConfig: its 'ordering' field, absent at first
    pl_calls,            \* the add_pipeline_component calls made so far, with their results
    \* ---- Configurations (configurations/calibrator.py) ----
    registry,            \* the registered configuration classes, by their path of field names
    search               \* the get_search_space call on the root class: arguments and result

calVars == <<kind, validate_condition, db_name, use_mongo, max_evaluations, validator,
             validator_args, search_space, validator0, pc, combinations, idx,
             calibration_results, evalLog, lastEval, outcome, trials,
             best_trial, pickle_file, workers, driver, queue, workers_results, mongo_best>>

\* the state of a run with the networked store
mongoVars == <<workers, driver, queue, workers_results, mongo_best>>

cmdVars == <<fs, metadata, runs_registry, tracked, cmd>>

cbVars == <<callbacks, cb, gd>>

plVars == <<pipeline_fields, ordering, pl_calls>>

ssVars == <<registry, search>>

cfgVars == <<plVars, ssVars>>

vars == <<calVars, cmdVars, cbVars, cfgVars>>

(***************************************************************************)
(* Values.                                                                  *)
(***************************************************************************)
\* the hyper-parameters of the validator's configuration, and sorted(params_dict)
Params == {"a", "b"}
ParamOrder == <<"a", "b">>

\* candidate values of a hyper-parameter
CandVals == 1..MaxCand

\* a parameter combination: a dict from parameter name to value
Combination == [Params -> CandVals]

\* the finite values a float metric takes in the model
ScoreVals == {1, 2}

\* Python values a metric field can hold: a float (NaN is one), an int, None
FloatVal(k) == [type |-> "float", nan |-> FALSE, v |-> k]
NaN == [type |-> "float", nan |-> TRUE, v |-> 0]
IntVal(k) == [type |-> "int", nan |-> FALSE, v |-> k]
NoneVal == [type |-> "NoneType", nan |-> FALSE, v |-> 0]
MetricValues == {FloatVal(k) : k \in ScoreVals} \cup {NaN, IntVal(1), NoneVal}

\* a real number: an int or a float that is a number
IsRealNumber(m) == m.type \in {"float", "int"} /\ ~m.nan

\* -x on a float: the negation of NaN is NaN
Neg(x) == IF x.nan THEN x ELSE [x EXCEPT !.v = -x.v]

\* x < y on floats: every comparison with NaN is False
Lt(x, y) == ~x.nan /\ ~y.nan /\ x.v < y.v

NoValidator == [isNone |-> TRUE, config |-> [p \in Params |-> 0]]
\* the values the validator's configuration declares for its parameters
DefaultConfig == [p \in Params |-> 0]
Validator(cfg) == [isNone |-> FALSE, config |-> cfg]

NoSpace == [isNone |-> TRUE, lists |-> [p \in Params |-> <<>>]]
Space(l) == [isNone |-> FALSE, lists |-> l]

\* the candidate lists of the model: the first n candidate values, n = 0..MaxCand
CandLists == {[i \in 1..n |-> i] : n \in 0..MaxCand}
SearchSpaces == {NoSpace} \cup {Space(l) : l \in [Params -> CandLists]}

\* the search space of a hyperopt validator: per parameter, a choice among two values
HyperSpace == Space([p \in Params |-> <<1, 2>>])

NoCombination == [p \in Params |-> 0]
EvalResult(c, ran, m, status, error, score) ==
    [called |-> TRUE, combination |-> c, ran |-> ran, metric |-> m, status |-> status,
     error |-> error, score |-> score]
NoEval == [called |-> FALSE, combination |-> NoCombination, ran |-> "none",
           metric |-> NoneVal, status |-> "none", error |-> "none", score |-> NoneVal]
NoOutcome == [status |-> "none", error |-> "none", score |-> NoneVal,
              combination |-> NoCombination]
Raised(e) == [status |-> "raised", error |-> e, score |-> NoneVal,
              combination |-> NoCombination]
Returned(s, c) == [status |-> "returned", error |-> "none", score |-> s, combination |-> c]

NoTrials == [store |-> "unopened", history |-> <<>>]
NoFile == [exists |-> FALSE, history |-> <<>>]
\* a file an earlier process saved: one trial
EarlierFile == [exists |-> TRUE,
                history |-> << [combination |-> [p \in Params |-> 1], loss |-> FloatVal(2)] >>]
NoDriver == [state |-> "none", best |-> NoCombination, large |-> FALSE]

(***************************************************************************)
(* get_dict_values_combinations (cinnamon_core): every combination across a *)
(* map of candidate lists, the keys sorted and the last key varying fastest.*)
(***************************************************************************)
RECURSIVE Flatten(_)
Flatten(ss) == IF ss = <<>> THEN <<>> ELSE Head(ss) \o Flatten(Tail(ss))

RECURSIVE ProductTuples(_, _)
ProductTuples(keys, lists) ==
    IF keys = <<>> THEN << <<>> >>
    ELSE LET rest == ProductTuples(Tail(keys), lists)
             vals == lists[Head(keys)]
         IN  Flatten([i \in 1..Len(vals) |->
                         [j \in 1..Len(rest) |-> <<vals[i]>> \o rest[j]]])

KeyIndex(p) == CHOOSE i \in 1..Len(ParamOrder) : ParamOrder[i] = p

get_dict_values_combinations(lists) ==
    LET tuples == ProductTuples(ParamOrder, lists)
    IN  [n \in 1..Len(tuples) |-> [p \in Params |-> tuples[n][KeyIndex(p)]]]

(***************************************************************************)
(* Component.get_delta_copy (cinnamon_core): a clone with the named         *)
(* parameters overridden; the original is untouched.                        *)
(***************************************************************************)
get_delta_copy(v, params_dict) ==
    Validator([p \in Params |-> params_dict[p]])

(***************************************************************************)
(* Calibrator.evaluate_combination(parameter_combination), the validator    *)
(* copy's run giving the metric value m.  The result: the shared validator  *)
(* after the call, what was run, and the call's outcome.                    *)
(***************************************************************************)
evaluate_combination_in_place(self_validator, self_args_none, cond, parameter_combination, m) ==
    LET c == parameter_combination
        changed == Validator([p \in Params |-> c[p]])
    IN  IF self_validator.isNone
        THEN [validator |-> self_validator,
              eval |-> EvalResult(c, "none", NoneVal, "raised", "AttributeError", NoneVal)]
        ELSE IF self_args_none
        THEN [validator |-> changed,
              eval |-> EvalResult(c, "none", NoneVal, "raised", "TypeError", NoneVal)]
        ELSE [validator |-> changed,
              eval |-> IF m.type # "float"
                       THEN EvalResult(c, "shared", m, "raised", "RuntimeError", NoneVal)
                       ELSE EvalResult(c, "shared", m, "returned", "none",
                                       IF cond = "maximization" THEN Neg(m) ELSE m)]

evaluate_combination(self_validator, self_args_none, cond, parameter_combination, m) ==
    LET c == parameter_combination
    IN  IF self_validator.isNone
        THEN \* line 108: None has no get_delta_copy
             [validator |-> self_validator,
              eval |-> EvalResult(c, "none", NoneVal, "raised", "AttributeError", NoneVal)]
        ELSE LET copy == get_delta_copy(self_validator, c)
             IN  IF self_args_none
                 THEN \* line 111: run(**None)
                      [validator |-> self_validator,
                       eval |-> EvalResult(c, "none", NoneVal, "raised", "TypeError", NoneVal)]
                 ELSE \* line 111: the copy runs; lines 114-124
                      [validator |-> self_validator,
                       eval |-> IF m.type = "NoneType" \/ m.type # "float"
                                THEN EvalResult(c, "copy", m, "raised", "RuntimeError", NoneVal)
                                ELSE EvalResult(c, "copy", m, "returned", "none",
                                                IF cond = "maximization" THEN Neg(m) ELSE m)]

(***************************************************************************)
(* sorted(calibration_results, key=lambda pair: pair[0]), line 163: the     *)
(* list sort of CPython on a list shorter than 64, whose only comparison is *)
(* key < key.  The leading run is counted (and reversed when strictly       *)
(* descending), then every later pair is inserted by binary search.  The    *)
(* result is the stable ascending order when the keys are totally ordered;  *)
(* NaN keys, for which every comparison is False, stay where the            *)
(* comparisons leave them.                                                  *)
(***************************************************************************)
KeyLt(x, y) == Lt(x[1], y[1])

\* count_run: the length of the leading run, descending or not
RECURSIVE RunEnd(_, _, _)
RunEnd(s, k, descending) ==
    IF k > Len(s) THEN Len(s)
    ELSE IF descending = KeyLt(s[k], s[k - 1]) THEN RunEnd(s, k + 1, descending)
    ELSE k - 1

Reverse(s) == [i \in 1..Len(s) |-> s[Len(s) + 1 - i]]

\* binarysort: where the pivot goes in the sorted prefix, between l and r (0-based)
RECURSIVE InsertPos(_, _, _, _)
InsertPos(s, pivot, l, r) ==
    IF l >= r THEN l
    ELSE LET p == l + ((r - l) \div 2)
         IN  IF KeyLt(pivot, s[p + 1]) THEN InsertPos(s, pivot, l, p)
             ELSE InsertPos(s, pivot, p + 1, r)

InsertAt(s, pos, x) == SubSeq(s, 1, pos) \o <<x>> \o SubSeq(s, pos + 1, Len(s))

RECURSIVE BinarySort(_, _)
BinarySort(prefix, rest) ==
    IF rest = <<>> THEN prefix
    ELSE BinarySort(InsertAt(prefix, InsertPos(prefix, Head(rest), 0, Len(prefix)),
                             Head(rest)),
                    Tail(rest))

sorted(s) ==
    IF Len(s) < 2 THEN s
    ELSE LET descending == KeyLt(s[2], s[1])
             n == RunEnd(s, 3, descending)
             run == IF descending THEN Reverse(SubSeq(s, 1, n)) ELSE SubSeq(s, 1, n)
         IN  BinarySort(run, SubSeq(s, n + 1, Len(s)))

(***************************************************************************)
(* The calibrator after construction, lines 51-63 (and 173-189).            *)
(***************************************************************************)
CalInit ==
    /\ kind \in {"grid", "hyperopt"}
    /\ validate_condition \in {"minimization", "maximization"}
    /\ db_name \in {"None", "db"}
    /\ use_mongo \in BOOLEAN
    /\ max_evaluations \in 1..MaxEvals
    /\ (kind = "grid" => db_name = "None" /\ use_mongo = FALSE /\ max_evaluations = 1)
    /\ validator = NoValidator
    /\ validator_args = "None"
    /\ search_space = NoSpace
    /\ validator0 = NoValidator
    /\ pc = "idle"
    /\ combinations = <<>>
    /\ idx = 1
    /\ calibration_results = <<>>
    /\ evalLog = <<>>
    /\ lastEval = NoEval
    /\ outcome = NoOutcome
    /\ trials = NoTrials
    /\ best_trial = "none"
    /\ pickle_file \in IF kind = "hyperopt" /\ db_name # "None" THEN {NoFile, EarlierFile}
                                                              ELSE {NoFile}
    /\ workers \in 1..MaxWorkers
    /\ (kind = "grid" \/ ~use_mongo) => workers = 1
    /\ driver = NoDriver
    /\ queue = <<>>
    /\ workers_results = <<>>
    /\ mongo_best = NoCombination

\* Calibrator.set_validator(validator, validator_args), lines 65-81
set_validator ==
    /\ pc = "idle"
    /\ validator.isNone
    /\ \E args \in {"None", "dict"},
          sp \in IF kind = "grid" THEN SearchSpaces ELSE {NoSpace, HyperSpace} :
          /\ validator' = Validator(DefaultConfig)
          /\ validator0' = Validator(DefaultConfig)
          /\ validator_args' = args
          /\ search_space' = sp
    /\ UNCHANGED <<cmdVars, cbVars, cfgVars>>
    /\ UNCHANGED mongoVars
    /\ UNCHANGED <<kind, validate_condition, db_name, use_mongo, max_evaluations, pc,
                   combinations, idx, calibration_results, evalLog, lastEval,
                   outcome, trials, best_trial, pickle_file>>

\* a direct call of Calibrator.evaluate_combination, lines 83-124
EvaluateCombination ==
    /\ pc = "idle"
    /\ \E c \in Combination, m \in MetricValues :
          LET r == evaluate_combination(validator, validator_args = "None",
                                        validate_condition, c, m)
          IN  /\ validator' = r.validator
              /\ lastEval' = r.eval
    /\ UNCHANGED <<cmdVars, cbVars, cfgVars>>
    /\ UNCHANGED mongoVars
    /\ UNCHANGED <<kind, validate_condition, db_name, use_mongo, max_evaluations,
                   validator_args, search_space, validator0, pc, combinations, idx,
                   calibration_results, evalLog, outcome, trials, best_trial, pickle_file>>

(***************************************************************************)
(* GridSearchCalibrator.run, lines 134-165.                                 *)
(***************************************************************************)
\* lines 146-152: the error the prerequisites give, or "none"
GridPrecheck(v, sp) ==
    IF v.isNone THEN "UnsetValidatorException"
    ELSE IF sp.isNone THEN "MissingSearchSpaceException"
    ELSE "none"

\* lines 146-158
GridRunStart ==
    /\ kind = "grid"
    /\ pc = "idle"
    /\ evalLog' = <<>>
    /\ lastEval' = NoEval
    /\ calibration_results' = <<>>
    /\ idx' = 1
    /\ IF GridPrecheck(validator, search_space) # "none"
       THEN /\ pc' = "done"
            /\ outcome' = Raised(GridPrecheck(validator, search_space))
            /\ combinations' = <<>>
       ELSE /\ pc' = "grid_loop"
            /\ outcome' = NoOutcome
            /\ combinations' = get_dict_values_combinations(search_space.lists)
    /\ UNCHANGED <<cmdVars, cbVars, cfgVars>>
    /\ UNCHANGED mongoVars
    /\ UNCHANGED <<kind, validate_condition, db_name, use_mongo, max_evaluations, validator,
                   validator_args, search_space, validator0, trials, best_trial,
                   pickle_file>>

\* line 159: the loop is over when every combination has been taken
GridLoopDoneEarly(i, combs) == i >= Len(combs)

GridLoopDone(i, combs) == i > Len(combs)

\* lines 159-161: one iteration of the loop
GridEvaluate ==
    /\ pc = "grid_loop"
    /\ ~GridLoopDone(idx, combinations)
    /\ \E m \in MetricValues :
          LET c == combinations[idx]
              r == evaluate_combination(validator, validator_args = "None",
                                        validate_condition, c, m)
          IN  /\ validator' = r.validator
              /\ evalLog' = Append(evalLog, c)
              /\ lastEval' = r.eval
              /\ IF r.eval.status = "raised"
                 THEN /\ pc' = "done"
                      /\ outcome' = Raised(r.eval.error)
                      /\ UNCHANGED <<idx, calibration_results>>
                 ELSE /\ calibration_results' =
                             Append(calibration_results, <<r.eval.score, c>>)
                      /\ idx' = idx + 1
                      /\ UNCHANGED <<pc, outcome>>
    /\ UNCHANGED <<cmdVars, cbVars, cfgVars>>
    /\ UNCHANGED mongoVars
    /\ UNCHANGED <<kind, validate_condition, db_name, use_mongo, max_evaluations,
                   validator_args, search_space, validator0, combinations, trials,
                   best_trial, pickle_file>>

\* lines 163-165
GridFinish ==
    /\ pc = "grid_loop"
    /\ GridLoopDone(idx, combinations)
    /\ pc' = "done"
    /\ IF calibration_results = <<>>
       THEN outcome' = Raised("IndexError")
       ELSE LET best == sorted(calibration_results)[1]
            IN  outcome' = Returned(best[1], best[2])
    /\ UNCHANGED <<cmdVars, cbVars, cfgVars>>
    /\ UNCHANGED mongoVars
    /\ UNCHANGED <<kind, validate_condition, db_name, use_mongo, max_evaluations, validator,
                   validator_args, search_space, validator0, combinations, idx,
                   calibration_results, evalLog, lastEval, trials,
                   best_trial, pickle_file>>

(***************************************************************************)
(* HyperOptCalibrator.run, lines 292-367.                                   *)
(***************************************************************************)
\* lines 310-319: the error the prerequisites give, or "none"
HyperPrecheckNoDb(v, sp, db) ==
    IF v.isNone THEN "UnsetValidatorException"
    ELSE IF sp.isNone THEN "MissingSearchSpaceException"
    ELSE "none"

HyperPrecheck(v, sp, db) ==
    IF v.isNone THEN "UnsetValidatorException"
    ELSE IF sp.isNone THEN "MissingSearchSpaceException"
    ELSE IF db = "None" THEN "DBNotSpecifiedException"
    ELSE "none"

\* _retrieve_custom_trials never reading the file
retrieve_custom_trials_fresh(is_dir, file) ==
    IF ~is_dir THEN [error |-> "FileNotFoundError", trials |-> NoTrials]
    ELSE [error |-> "none", trials |-> [store |-> "new", history |-> <<>>]]

\* HyperOptCalibrator._retrieve_custom_trials, lines 191-216: the trial store, or
\* the error when mongo_directory is no directory
retrieve_custom_trials(is_dir, file) ==
    IF ~is_dir THEN [error |-> "FileNotFoundError", trials |-> NoTrials]
    ELSE IF file.exists
    THEN [error |-> "none", trials |-> [store |-> "loaded", history |-> file.history]]
    ELSE [error |-> "none", trials |-> [store |-> "new", history |-> <<>>]]

\* lines 308-326
HyperRunStart ==
    /\ kind = "hyperopt"
    /\ pc = "idle"
    /\ evalLog' = <<>>
    /\ lastEval' = NoEval
    /\ best_trial' = "none"
    /\ LET e == HyperPrecheck(validator, search_space, db_name)
       IN  IF e # "none"
           THEN /\ pc' = "done"
                /\ outcome' = Raised(e)
                /\ trials' = NoTrials
           ELSE IF use_mongo
           THEN /\ pc' = "mongo_search"
                /\ outcome' = NoOutcome
                /\ trials' = [store |-> "mongo", history |-> <<>>]
           ELSE \E is_dir \in BOOLEAN :
                   LET r == retrieve_custom_trials(is_dir, pickle_file)
                   IN  /\ trials' = r.trials
                       /\ IF r.error # "none"
                          THEN pc' = "done" /\ outcome' = Raised(r.error)
                          ELSE pc' = "local_search" /\ outcome' = NoOutcome
    /\ UNCHANGED <<cmdVars, cbVars, cfgVars>>
    /\ UNCHANGED mongoVars
    /\ UNCHANGED <<kind, validate_condition, db_name, use_mongo, max_evaluations, validator,
                   validator_args, search_space, validator0, combinations, idx,
                   calibration_results, pickle_file>>

\* the combinations a search space can sample
Samples(sp) ==
    {c \in Combination : \A p \in Params : \E i \in 1..Len(sp.lists[p]) : sp.lists[p][i] = c[p]}

\* HyperOptCalibrator._calibrate, lines 218-241: one evaluation of fmin, which
\* evaluates until the store holds max_evaluations trials
HyperEvaluate ==
    /\ pc = "local_search"
    /\ Len(trials.history) < max_evaluations
    /\ \E c \in Samples(search_space), m \in MetricValues :
          LET r == evaluate_combination(validator, validator_args = "None",
                                        validate_condition, c, m)
          IN  /\ validator' = r.validator
              /\ evalLog' = Append(evalLog, c)
              /\ lastEval' = r.eval
              /\ IF r.eval.status = "raised"
                 THEN /\ pc' = "done"
                      /\ outcome' = Raised(r.eval.error)
                      /\ UNCHANGED trials
                 ELSE /\ trials' = [trials EXCEPT !.history =
                             Append(@, [combination |-> c, loss |-> r.eval.score])]
                      /\ UNCHANGED <<pc, outcome>>
    /\ UNCHANGED <<cmdVars, cbVars, cfgVars>>
    /\ UNCHANGED mongoVars
    /\ UNCHANGED <<kind, validate_condition, db_name, use_mongo, max_evaluations,
                   validator_args, search_space, validator0, combinations, idx,
                   calibration_results, best_trial, pickle_file>>

\* the trials hyperopt takes the best from: those whose loss is a number
Candidates(history) == {i \in 1..Len(history) : ~history[i].loss.nan}

BestIndex(history) ==
    CHOOSE i \in Candidates(history) :
        /\ \A j \in Candidates(history) : ~Lt(history[j].loss, history[i].loss)
        /\ \A j \in Candidates(history) : j < i => Lt(history[i].loss, history[j].loss)

\* lines 352-367, the search over
HyperFinish ==
    /\ pc = "local_search"
    /\ Len(trials.history) >= max_evaluations
    /\ pc' = "done"
    /\ IF Candidates(trials.history) = {}
       THEN \* no trial to take the best from: fmin raises or gives no best, by its version
            \/ /\ outcome' = Raised("AllTrialsFailed")
               /\ UNCHANGED <<best_trial, pickle_file>>
            \/ /\ outcome' = Returned(NoneVal, NoCombination)
               /\ best_trial' = "N/A"
               /\ pickle_file' = [exists |-> TRUE, history |-> trials.history]
       ELSE LET b == trials.history[BestIndex(trials.history)]
            IN  /\ outcome' = Returned(b.loss, b.combination)
                /\ best_trial' = "trial"
                /\ pickle_file' = [exists |-> TRUE, history |-> trials.history]
    /\ UNCHANGED <<cmdVars, cbVars, cfgVars>>
    /\ UNCHANGED mongoVars
    /\ UNCHANGED <<kind, validate_condition, db_name, use_mongo, max_evaluations, validator,
                   validator_args, search_space, validator0, combinations, idx,
                   calibration_results, evalLog, lastEval, trials>>

(***************************************************************************)
(* HyperOptCalibrator.run with the networked store, lines 328-350, the      *)
(* driver process (_mongo_calibrate, lines 243-259) and the worker tasks    *)
(* (_run_mongo_worker, lines 261-290).                                      *)
(***************************************************************************)
\* what the calibrator and a local run keep while a mongo run goes on
MongoFrame ==
    UNCHANGED <<kind, validate_condition, db_name, use_mongo, max_evaluations, validator,
                validator_args, search_space, validator0, combinations, idx,
                calibration_results, evalLog, lastEval, trials, pickle_file, workers>>

\* lines 332-335: the queue is made and the driver process started
MongoStartDriver ==
    /\ pc = "mongo_search"
    /\ pc' = "submit"
    /\ driver' = [state |-> "running", best |-> NoCombination, large |-> FALSE]
    /\ queue' = <<>>
    /\ UNCHANGED <<outcome, best_trial, workers_results, mongo_best>>
    /\ MongoFrame
    /\ UNCHANGED <<cmdVars, cbVars, cfgVars>>

\* lines 342-344: one pool.apply_async(self._run_mongo_worker, ...) of the loop
MongoSubmit ==
    /\ pc = "submit"
    /\ Len(workers_results) < workers
    /\ workers_results' = Append(workers_results, "submitted")
    /\ UNCHANGED <<pc, outcome, best_trial, driver, queue, mongo_best>>
    /\ MongoFrame
    /\ UNCHANGED <<cmdVars, cbVars, cfgVars>>

\* line 342: the loop over range(self.workers) is over
MongoSubmitted ==
    /\ pc = "submit"
    /\ Len(workers_results) >= workers
    /\ pc' = "wait"
    /\ UNCHANGED <<outcome, best_trial, driver, queue, workers_results, mongo_best>>
    /\ MongoFrame
    /\ UNCHANGED <<cmdVars, cbVars, cfgVars>>

\* line 286 in a pool process: clear_folder(self.mongo_workers_directory)
WorkerClear ==
    /\ \E i \in 1..Len(workers_results) :
          /\ workers_results[i] = "submitted"
          /\ workers_results' = [workers_results EXCEPT ![i] = "cleared"]
    /\ UNCHANGED <<pc, outcome, best_trial, driver, queue, mongo_best>>
    /\ MongoFrame
    /\ UNCHANGED <<cmdVars, cbVars, cfgVars>>

\* line 289: Popen(cmd, cwd=self.mongo_workers_directory, shell=True)
WorkerPopen ==
    /\ \E i \in 1..Len(workers_results) :
          /\ workers_results[i] = "cleared"
          /\ workers_results' = [workers_results EXCEPT ![i] = "subprocess"]
    /\ UNCHANGED <<pc, outcome, best_trial, driver, queue, mongo_best>>
    /\ MongoFrame
    /\ UNCHANGED <<cmdVars, cbVars, cfgVars>>

\* line 290: the subprocess exits, process.wait() and the task return
WorkerReturn ==
    /\ \E i \in 1..Len(workers_results) :
          /\ workers_results[i] = "subprocess"
          /\ workers_results' = [workers_results EXCEPT ![i] = "returned"]
    /\ UNCHANGED <<pc, outcome, best_trial, driver, queue, mongo_best>>
    /\ MongoFrame
    /\ UNCHANGED <<cmdVars, cbVars, cfgVars>>

\* the caller going on when the first task has returned
workers_got_first(results) == results # <<>> /\ results[1] = "returned"

\* line 346, [worker.get() for worker in workers_results]: over when every task
\* has returned
workers_got(results) == \A i \in 1..Len(results) : results[i] = "returned"

\* lines 346-347: every worker.get() has returned and the pool is left
MongoWorkersGot ==
    /\ pc = "wait"
    /\ workers_got(workers_results)
    /\ pc' = "join"
    /\ UNCHANGED <<outcome, best_trial, driver, queue, workers_results, mongo_best>>
    /\ MongoFrame
    /\ UNCHANGED <<cmdVars, cbVars, cfgVars>>

\* lines 258-259 in the driver process: fmin returns its best and queue.put(best)
\* leaves it in the buffer of the queue, in the driver process; large says that
\* the pickled best is longer than what the pipe of the queue holds unread
DriverPut ==
    /\ driver.state = "running"
    /\ \E c \in Samples(search_space), large \in BOOLEAN :
          driver' = [state |-> "put", best |-> c, large |-> large]
    /\ UNCHANGED <<pc, outcome, best_trial, queue, workers_results, mongo_best>>
    /\ MongoFrame
    /\ UNCHANGED <<cmdVars, cbVars, cfgVars>>

\* the feeder thread of the queue, in the driver process, writes the buffered
\* best to the pipe: at once when the pipe holds it, and otherwise only while the
\* caller is reading (line 350)
FeederSend ==
    /\ driver.state = "put"
    /\ ~driver.large \/ pc = "get"
    /\ queue' = Append(queue, driver.best)
    /\ driver' = [driver EXCEPT !.state = "fed"]
    /\ UNCHANGED <<pc, outcome, best_trial, workers_results, mongo_best>>
    /\ MongoFrame
    /\ UNCHANGED <<cmdVars, cbVars, cfgVars>>

\* line 258 in the driver process: fmin raises, nothing is put and the process ends
DriverRaise ==
    /\ driver.state = "running"
    /\ driver' = [driver EXCEPT !.state = "exited"]
    /\ UNCHANGED <<pc, outcome, best_trial, queue, workers_results, mongo_best>>
    /\ MongoFrame
    /\ UNCHANGED <<cmdVars, cbVars, cfgVars>>

\* the driver process ends after line 259: a process that has put on a queue
\* ends only when its feeder thread has written everything to the pipe
DriverExit ==
    /\ driver.state = "fed"
    /\ driver' = [driver EXCEPT !.state = "exited"]
    /\ UNCHANGED <<pc, outcome, best_trial, queue, workers_results, mongo_best>>
    /\ MongoFrame
    /\ UNCHANGED <<cmdVars, cbVars, cfgVars>>

\* line 349: main_calibrator_process.join() returns
MongoJoin ==
    /\ pc = "join"
    /\ driver.state = "exited"
    /\ pc' = "get"
    /\ UNCHANGED <<outcome, best_trial, driver, queue, workers_results, mongo_best>>
    /\ MongoFrame
    /\ UNCHANGED <<cmdVars, cbVars, cfgVars>>

\* line 350: best = main_calibrator_queue.get() returns
MongoGet ==
    /\ pc = "get"
    /\ queue # <<>>
    /\ mongo_best' = Head(queue)
    /\ queue' = Tail(queue)
    /\ pc' = "mongo_finish"
    /\ UNCHANGED <<outcome, best_trial, driver, workers_results>>
    /\ MongoFrame
    /\ UNCHANGED <<cmdVars, cbVars, cfgVars>>

\* lines 354-367 with the networked store: best_params from best, the best trial
\* of the caller's MongoTrials or the placeholder; nothing is written to the
\* pickle file
MongoFinish ==
    /\ pc = "mongo_finish"
    /\ pc' = "done"
    /\ \/ \E k \in ScoreVals :
             /\ outcome' = Returned(FloatVal(k), mongo_best)
             /\ best_trial' = "trial"
       \/ /\ outcome' = Returned(NoneVal, mongo_best)
          /\ best_trial' = "N/A"
    /\ UNCHANGED <<driver, queue, workers_results, mongo_best>>
    /\ MongoFrame
    /\ UNCHANGED <<cmdVars, cbVars, cfgVars>>

\* run is over: its local variables are gone, the calibrator and the files stay
CalReturn ==
    /\ pc = "done"
    /\ pc' = "idle"
    /\ combinations' = <<>>
    /\ idx' = 1
    /\ calibration_results' = <<>>
    /\ evalLog' = <<>>
    /\ lastEval' = NoEval
    /\ outcome' = NoOutcome
    /\ trials' = NoTrials
    /\ best_trial' = "none"
    /\ driver' = NoDriver
    /\ queue' = <<>>
    /\ workers_results' = <<>>
    /\ mongo_best' = NoCombination
    /\ UNCHANGED workers
    /\ UNCHANGED <<cmdVars, cbVars, cfgVars>>
    /\ UNCHANGED <<kind, validate_condition, db_name, use_mongo, max_evaluations, validator,
                   validator_args, search_space, validator0, pickle_file>>

CalNext ==
    \/ set_validator
    \/ EvaluateCombination
    \/ GridRunStart
    \/ GridEvaluate
    \/ GridFinish
    \/ HyperRunStart
    \/ HyperEvaluate
    \/ HyperFinish
    \/ MongoStartDriver
    \/ MongoSubmit
    \/ MongoSubmitted
    \/ WorkerClear
    \/ WorkerPopen
    \/ WorkerReturn
    \/ MongoWorkersGot
    \/ DriverPut
    \/ FeederSend
    \/ DriverRaise
    \/ DriverExit
    \/ MongoJoin
    \/ MongoGet
    \/ MongoFinish
    \/ CalReturn

(***************************************************************************)
(* The command layer, api/commands.py.                                      *)
(***************************************************************************)
RunNames == {"r1", "r2"}
Keys == {"k1", "k2"}

\* paths: the temporary run directories, the final run directories, None
NonePath == [kind |-> "None", n |-> 0, name |-> "None"]
Tmp(k) == [kind |-> "tmp", n |-> k, name |-> "None"]
Final(name) == [kind |-> "final", n |-> 0, name |-> name]

\* a routine_path argument: None, a Path or a str, of the routine directory of a name
NoRoutinePath == [type |-> "None", dir |-> "None"]
PathArg(d) == [type |-> "Path", dir |-> d]
StrArg(d) == [type |-> "str", dir |-> d]
RoutinePaths == {PathArg(d) : d \in RunNames} \cup {StrArg("r1")}

\* the registration key command_metadata.json of a routine directory stores
KeyOf(d) == IF d = "r1" THEN "k1" ELSE "k2"

\* what the component's run does: returns, returns having created the
\* serialization path, or raises
RunEffects == {"returns", "creates_path", "raises"}

Ev(e, k, p) == [ev |-> e, key |-> k, path |-> p]

\* a run_args argument: None, or a dict as its set of (key, value) items
NoArgs == [isNone |-> TRUE, d |-> {}]
Args(d) == [isNone |-> FALSE, d |-> d]
KeysOf(d) == {p[1] : p \in d}

\* {**a, **b}
Update(a, b) == {p \in a : p[1] \notin KeysOf(b)} \cup b

\* d[k] = v
SetItem(d, k, v) == Update(d, {<<k, v>>})

\* the value of the serialization_path key that stands for the temporary path
\* the manager allocated for the run
ManagedPath == "managed_path"

\* 'serialization_path' in get_function_signature(component.run): the run of
\* the component registered as k1 declares the parameter, that of k2 does not
TakesPath(key) == key = "k1"

\* the state the commands act on, with the record of the command under way
World == [fs |-> fs, runs_registry |-> runs_registry, tracked |-> tracked,
          error |-> "none", events |-> <<>>, icalls |-> <<>>, fin |-> <<>>,
          rcalls |-> <<>>, runs |-> <<>>, tcalls |-> <<>>, mcalls |-> <<>>]

\* FileManager.register_temporary_run_name(replacement_name, create_path): a
\* collision-free temporary path, recorded with the path the desired final name
\* implies, and created when asked
register_temporary_run_name(w, replacement_name, create_path) ==
    LET tmp == Tmp(Len(w.runs_registry) + 1)
    IN  [w EXCEPT !.runs_registry =
                      Append(@, IF replacement_name = "None" THEN NonePath
                                ELSE Final(replacement_name)),
                  !.fs = IF create_path THEN @ \cup {tmp} ELSE @]

\* FileManager.track_run(registration_key, serialization_path)
track_run(w, key, path) ==
    [w EXCEPT !.tracked[key] = path, !.events = Append(@, Ev("track", key, path))]

\* lines 152-164 of run_component_from_key with the rename done although the
\* replacement path exists
FinalizeOverwriting(w, key, run_name, tmp) ==
    LET replacement == w.runs_registry[tmp.n]
        rename == run_name # "None" /\ tmp \in w.fs
        w1 == IF rename
              THEN [w EXCEPT !.fs = (@ \ {tmp}) \cup {replacement},
                             !.events = Append(@, Ev("rename", key, replacement))]
              ELSE w
        path == IF rename THEN replacement ELSE tmp
        w2 == IF path \in w1.fs THEN track_run(w1, key, path) ELSE w1
    IN  [w2 EXCEPT !.fin = Append(@,
            [reached |-> TRUE, run_name |-> run_name, key |-> key, tmp |-> tmp,
             final |-> IF run_name = "None" THEN NonePath ELSE replacement,
             tmp_existed |-> tmp \in w.fs,
             final_existed |-> run_name # "None" /\ replacement \in w.fs,
             fs_before |-> w.fs, fs_after |-> w2.fs, warnings |-> 0, renamed |-> rename,
             tracked_as |-> IF path \in w1.fs THEN path ELSE NonePath])]

\* lines 152-164 of run_component_from_key with the run tracked whether or not
\* its path exists
FinalizeTrackingAlways(w, key, run_name, tmp) ==
    LET replacement == w.runs_registry[tmp.n]
        looked == run_name # "None" /\ tmp \in w.fs
        warn == looked /\ replacement \in w.fs
        rename == looked /\ replacement \notin w.fs
        w1 == IF warn THEN [w EXCEPT !.events = Append(@, Ev("warning", key, replacement))]
              ELSE IF rename
              THEN [w EXCEPT !.fs = (@ \ {tmp}) \cup {replacement},
                             !.events = Append(@, Ev("rename", key, replacement))]
              ELSE w
        path == IF rename THEN replacement ELSE tmp
        w2 == track_run(w1, key, path)
    IN  [w2 EXCEPT !.fin = Append(@,
            [reached |-> TRUE, run_name |-> run_name, key |-> key, tmp |-> tmp,
             final |-> IF run_name = "None" THEN NonePath ELSE replacement,
             tmp_existed |-> tmp \in w.fs,
             final_existed |-> run_name # "None" /\ replacement \in w.fs,
             fs_before |-> w.fs, fs_after |-> w2.fs,
             warnings |-> IF warn THEN 1 ELSE 0, renamed |-> rename,
             tracked_as |-> path])]

\* lines 152-164 of run_component_from_key: the rename to the final path, or the
\* warning when it exists, and the tracking
Finalize(w, key, run_name, tmp) ==
    LET replacement == w.runs_registry[tmp.n]
        looked == run_name # "None" /\ tmp \in w.fs
        warn == looked /\ replacement \in w.fs
        rename == looked /\ replacement \notin w.fs
        w1 == IF warn THEN [w EXCEPT !.events = Append(@, Ev("warning", key, replacement))]
              ELSE IF rename
              THEN [w EXCEPT !.fs = (@ \ {tmp}) \cup {replacement},
                             !.events = Append(@, Ev("rename", key, replacement))]
              ELSE w
        path == IF rename THEN replacement ELSE tmp
        w2 == IF path \in w1.fs THEN track_run(w1, key, path) ELSE w1
    IN  [w2 EXCEPT !.fin = Append(@,
            [reached |-> TRUE, run_name |-> run_name, key |-> key, tmp |-> tmp,
             final |-> IF run_name = "None" THEN NonePath ELSE replacement,
             tmp_existed |-> tmp \in w.fs,
             final_existed |-> run_name # "None" /\ replacement \in w.fs,
             fs_before |-> w.fs, fs_after |-> w2.fs,
             warnings |-> IF warn THEN 1 ELSE 0, renamed |-> rename,
             tracked_as |-> IF path \in w1.fs THEN path ELSE NonePath])]

\* run_component_from_key(config_registration_key, serialize, run_name, run_args),
\* lines 126-164, the component's run having the given effect
run_component_from_key(w, key, serialize, run_name, run_args, effect) ==
    LET tmp == Tmp(Len(w.runs_registry) + 1)
        \* lines 134-141
        w1 == [register_temporary_run_name(
                   [w EXCEPT !.events = @ \o <<Ev("build", key, NonePath),
                                               Ev("manager", "None", NonePath)>>,
                             !.rcalls = Append(@, [key |-> key, serialize |-> serialize,
                                                   run_name |-> run_name,
                                                   run_args |-> run_args])],
                   run_name, serialize)
               EXCEPT !.events = @]
        \* lines 143-146
        args == IF run_args.isNone THEN {} ELSE run_args.d
        passed == IF TakesPath(key) THEN SetItem(args, "serialization_path", ManagedPath)
                  ELSE args
        w2 == [w1 EXCEPT !.events = Append(@, Ev("run", key, tmp)),
                         !.runs = Append(@, [key |-> key, args |-> passed, path |-> tmp]),
                         !.fs = IF effect = "creates_path" THEN @ \cup {tmp} ELSE @,
                         !.error = IF effect = "raises" THEN "RunError" ELSE @]
        \* lines 148-150
        w3 == IF serialize THEN [w2 EXCEPT !.events = Append(@, Ev("save", key, tmp))]
              ELSE w2
    IN  IF w2.error # "none" THEN w2 ELSE Finalize(w3, key, run_name, tmp)

\* routine_inference(routine_path, routine_name, helper_registration_key, serialize),
\* lines 273-325
routine_inference(w, routine_path, routine_name, serialize, effect) ==
    LET called == [w EXCEPT !.icalls = Append(@, <<routine_path, routine_name>>)]
    IN  IF routine_path.type = "None" /\ routine_name = "None"
        THEN \* lines 293-295
             [called EXCEPT !.error = "AttributeError"]
        ELSE LET \* lines 297-303
                 w1 == [called EXCEPT !.events = Append(@, Ev("manager", "None", NonePath))]
                 path == IF routine_path.type = "None" THEN PathArg(routine_name)
                         ELSE routine_path
                 w2 == IF routine_path.type = "None"
                       THEN [w1 EXCEPT !.events = Append(@, Ev("routine_directory", "None",
                                                              NonePath))]
                       ELSE w1
             IN  IF path.type = "str"
                 THEN \* line 305: a str has no joinpath
                      [w2 EXCEPT !.error = "AttributeError"]
                 ELSE LET w3 == [w2 EXCEPT !.events = Append(@, Ev("is_file", "None",
                                                                  NonePath))]
                      IN  IF path.dir \notin metadata
                          THEN \* lines 306-307
                               [w3 EXCEPT !.error = "FileNotFoundError"]
                          ELSE \* lines 309-325
                               run_component_from_key(
                                   [w3 EXCEPT !.events = @ \o
                                        <<Ev("load_json", KeyOf(path.dir), NonePath),
                                          Ev("helper", "None", NonePath)>>],
                                   KeyOf(path.dir), serialize, routine_name,
                                   Args({<<"helper", "helper:default">>,
                                         <<"is_training", "False">>}), effect)

\* an absent list, and the lists of the model
NoList == [isNone |-> TRUE, items |-> <<>>]
List(items) == [isNone |-> FALSE, items |-> items]
ListsOf(S) == {List(<<>>)} \cup {List(<<x>>) : x \in S} \cup {List(<<x, y>>) : x, y \in S}

\* lines 352-355: the two lists the loop of routine_multiple_inference zips
NormalizedKeepingNames(routine_paths, routine_names) ==
    IF routine_names.isNone
    THEN [paths |-> routine_paths.items,
          names |-> [i \in 1..Len(routine_paths.items) |-> "None"]]
    ELSE IF routine_paths.isNone
    THEN [paths |-> [i \in 1..Len(routine_names.items) |-> NoRoutinePath],
          names |-> routine_names.items]
    ELSE [paths |-> routine_paths.items, names |-> routine_names.items]

Normalized(routine_paths, routine_names) ==
    IF ~routine_paths.isNone
    THEN [paths |-> routine_paths.items,
          names |-> [i \in 1..Len(routine_paths.items) |-> "None"]]
    ELSE [paths |-> [i \in 1..Len(routine_names.items) |-> NoRoutinePath],
          names |-> routine_names.items]

Min(x, y) == IF x < y THEN x ELSE y

\* lines 357-361: the loop over zip(routine_paths, routine_names) from pair i on
RECURSIVE InferenceLoop(_, _, _, _, _, _)
InferenceLoop(w, paths, names, i, serialize, effects) ==
    IF i > Min(Len(paths), Len(names)) \/ w.error # "none" THEN w
    ELSE InferenceLoop(routine_inference(w, paths[i], names[i], serialize, effects[i]),
                       paths, names, i + 1, serialize, effects)

\* routine_multiple_inference(routine_paths, routine_names, helper_registration_key,
\* serialize), lines 328-361
routine_multiple_inference(w, routine_paths, routine_names, serialize, effects) ==
    IF routine_paths.isNone /\ routine_names.isNone
    THEN [w EXCEPT !.error = "AttributeError"]
    ELSE LET z == Normalized(routine_paths, routine_names)
         IN  InferenceLoop(w, z.paths, z.names, 1, serialize, effects)

\* RegistrationKey(name, tags, namespace) of the registered routines
ComponentNames == {"n1", "n2"}
RegistrationKey(name) == IF name = "n1" THEN "k1" ELSE "k2"

\* run_component(name, tags, namespace, serialize, run_name, run_args), lines 167-181
run_component(w, name, serialize, run_name, run_args, effect) ==
    run_component_from_key(w, RegistrationKey(name), serialize, run_name, run_args, effect)

\* a helper_registration_key argument: None or the key of a registered helper
HelperKeys == {"None", "h1"}

\* lines 207-212 and 234-239: the helper built from the key given, or the default one
ResolvedHelper(helper_registration_key) ==
    IF helper_registration_key # "None" THEN "helper:" \o helper_registration_key
    ELSE "helper:default"

\* lines 214-218 and 241-245 with the computed arguments merged last
routine_run_args_computed_last(helper, run_args) ==
    LET routine_args == {<<"helper", helper>>, <<"is_training", "True">>}
    IN  IF ~run_args.isNone THEN Args(Update(run_args.d, routine_args))
        ELSE Args(routine_args)

\* lines 214-218 and 241-245: {**routine_args, **run_args}, or routine_args alone
routine_run_args(helper, run_args) ==
    LET routine_args == {<<"helper", helper>>, <<"is_training", "True">>}
    IN  IF ~run_args.isNone THEN Args(Update(routine_args, run_args.d))
        ELSE Args(routine_args)

TrainCall(op, target, helper_registration_key, serialize, run_name, run_args) ==
    [op |-> op, target |-> target, helper_key |-> helper_registration_key,
     serialize |-> serialize, run_name |-> run_name, run_args |-> run_args]

\* routine_train(name, tags, namespace, helper_registration_key, serialize, run_name,
\* run_args), lines 184-224
routine_train(w, name, helper_registration_key, serialize, run_name, run_args, effect) ==
    LET called == [w EXCEPT !.tcalls = Append(@,
                       TrainCall("routine_train", name, helper_registration_key,
                                 serialize, run_name, run_args))]
        helper == ResolvedHelper(helper_registration_key)
        w1 == [called EXCEPT !.events = Append(@, Ev("helper", helper_registration_key,
                                                     NonePath))]
    IN  run_component(w1, name, serialize, run_name, routine_run_args(helper, run_args),
                      effect)

\* routine_train_from_key(routine_registration_key, helper_registration_key, serialize,
\* run_name, run_args), lines 227-249
routine_train_from_key(w, key, helper_registration_key, serialize, run_name, run_args, effect) ==
    LET called == [w EXCEPT !.tcalls = Append(@,
                       TrainCall("routine_train_from_key", key, helper_registration_key,
                                 serialize, run_name, run_args))]
        helper == ResolvedHelper(helper_registration_key)
        w1 == [called EXCEPT !.events = Append(@, Ev("helper", helper_registration_key,
                                                     NonePath))]
    IN  run_component_from_key(w1, key, serialize, run_name,
                               routine_run_args(helper, run_args), effect)

\* lines 267-270 with a failed run not ending the loop
RECURSIVE TrainLoopIsolating(_, _, _, _, _, _)
TrainLoopIsolating(w, keys, i, helper_registration_key, serialize, effects) ==
    IF i > Len(keys) THEN w
    ELSE TrainLoopIsolating(
             routine_train_from_key(w, keys[i], helper_registration_key, serialize,
                                    "None", NoArgs, effects[i]),
             keys, i + 1, helper_registration_key, serialize, effects)

\* lines 267-270: the loop over routine_registration_keys from key i on
RECURSIVE TrainLoop(_, _, _, _, _, _)
TrainLoop(w, keys, i, helper_registration_key, serialize, effects) ==
    IF i > Len(keys) \/ w.error # "none" THEN w
    ELSE TrainLoop(
             routine_train_from_key(w, keys[i], helper_registration_key, serialize,
                                    "None", NoArgs, effects[i]),
             keys, i + 1, helper_registration_key, serialize, effects)

\* routine_multiple_train(routine_registration_keys, helper_registration_key,
\* serialize), lines 252-270
routine_multiple_train(w, keys, helper_registration_key, serialize, effects) ==
    TrainLoop([w EXCEPT !.mcalls = Append(@, [keys |-> keys,
                                             helper_key |-> helper_registration_key,
                                             serialize |-> serialize])],
              keys, 1, helper_registration_key, serialize, effects)

\* the run_args the callers of the model supply
DirectRunArgs == {NoArgs, Args({<<"epochs", "3">>, <<"serialization_path", "caller_path">>})}
CallerRunArgs ==
    {NoArgs, Args({}), Args({<<"helper", "helper:caller">>}),
     Args({<<"is_training", "False">>}), Args({<<"epochs", "3">>}),
     Args({<<"helper", "helper:caller">>, <<"is_training", "False">>, <<"epochs", "3">>}),
     Args({<<"serialization_path", "caller_path">>}),
     Args({<<"epochs", "3">>, <<"serialization_path", "caller_path">>})}

NoCommand == [op |-> "none", error |-> "none", events |-> <<>>, icalls |-> <<>>,
              fin |-> <<>>, paths |-> NoList, names |-> NoList,
              rcalls |-> <<>>, runs |-> <<>>, tcalls |-> <<>>, mcalls |-> <<>>]

CmdInit ==
    /\ fs \in SUBSET {Final(n) : n \in RunNames}
    /\ metadata \in SUBSET RunNames
    /\ runs_registry = <<>>
    /\ tracked = [k \in Keys |-> NonePath]
    /\ cmd = NoCommand

\* the state a command leaves, and its record
Done(op, w, paths, names) ==
    /\ fs' = w.fs
    /\ runs_registry' = w.runs_registry
    /\ tracked' = w.tracked
    /\ cmd' = [op |-> op, error |-> w.error, events |-> w.events, icalls |-> w.icalls,
               fin |-> w.fin, paths |-> paths, names |-> names,
               rcalls |-> w.rcalls, runs |-> w.runs, tcalls |-> w.tcalls, mcalls |-> w.mcalls]
    /\ UNCHANGED metadata
    /\ UNCHANGED <<calVars, cbVars, cfgVars>>

RunComponentFromKey ==
    /\ cmd.op = "none"
    /\ Len(runs_registry) < MaxRuns
    /\ \E key \in Keys, serialize \in BOOLEAN, run_name \in RunNames \cup {"None"},
          run_args \in DirectRunArgs, effect \in RunEffects :
          Done("run_component_from_key",
               run_component_from_key(World, key, serialize, run_name, run_args, effect),
               NoList, NoList)

RoutineInference ==
    /\ cmd.op = "none"
    /\ Len(runs_registry) < MaxRuns
    /\ \E routine_path \in RoutinePaths \cup {NoRoutinePath},
          routine_name \in RunNames \cup {"None"},
          serialize \in BOOLEAN, effect \in RunEffects :
          Done("routine_inference",
               routine_inference(World, routine_path, routine_name, serialize, effect),
               NoList, NoList)

RoutineMultipleInference ==
    /\ cmd.op = "none"
    /\ Len(runs_registry) + 2 <= MaxRuns
    /\ \E routine_paths \in ListsOf(RoutinePaths) \cup {NoList},
          routine_names \in ListsOf(RunNames) \cup {NoList},
          serialize \in BOOLEAN, effects \in [1..2 -> RunEffects] :
          Done("routine_multiple_inference",
               routine_multiple_inference(World, routine_paths, routine_names, serialize,
                                          effects),
               routine_paths, routine_names)

RoutineTrain ==
    /\ cmd.op = "none"
    /\ Len(runs_registry) < MaxRuns
    /\ \E name \in ComponentNames, helper_registration_key \in HelperKeys,
          serialize \in BOOLEAN, run_name \in RunNames \cup {"None"},
          run_args \in CallerRunArgs, effect \in RunEffects :
          Done("routine_train",
               routine_train(World, name, helper_registration_key, serialize, run_name,
                             run_args, effect),
               NoList, NoList)

RoutineTrainFromKey ==
    /\ cmd.op = "none"
    /\ Len(runs_registry) < MaxRuns
    /\ \E key \in Keys, helper_registration_key \in HelperKeys,
          serialize \in BOOLEAN, run_name \in RunNames \cup {"None"},
          run_args \in CallerRunArgs, effect \in RunEffects :
          Done("routine_train_from_key",
               routine_train_from_key(World, key, helper_registration_key, serialize,
                                      run_name, run_args, effect),
               NoList, NoList)

RoutineMultipleTrain ==
    /\ cmd.op = "none"
    /\ Len(runs_registry) + 2 <= MaxRuns
    /\ \E keys \in ListsOf(Keys), helper_registration_key \in HelperKeys,
          serialize \in BOOLEAN, effects \in [1..2 -> RunEffects] :
          Done("routine_multiple_train",
               routine_multiple_train(World, keys.items, helper_registration_key,
                                      serialize, effects),
               NoList, NoList)

\* the command is over: the caller goes on; the disk and the manager stay
CmdReturn ==
    /\ cmd.op # "none"
    /\ cmd' = NoCommand
    /\ UNCHANGED <<fs, metadata, runs_registry, tracked>>
    /\ UNCHANGED <<calVars, cbVars, cfgVars>>

CmdNext ==
    \/ RunComponentFromKey
    \/ RoutineInference
    \/ RoutineMultipleInference
    \/ CmdReturn

TrainNext ==
    \/ RoutineTrain
    \/ RoutineTrainFromKey
    \/ RoutineMultipleTrain
    \/ CmdReturn

(***************************************************************************)
(* The callbacks, components/callback.py.                                   *)
(***************************************************************************)
\* the hookpoints a callback may define a handler for
HandlerNames == {"on_fit_begin", "on_fit_end"}

\* what every Callback has besides its handlers: the attributes of lines 19-20
\* and the methods of lines 22 and 39
BaseAttributes == {"component", "save_path", "setup", "run"}

\* the hookpoint arguments of the model: names, and None (the default)
HookpointArgs == HandlerNames \cup {"save_path", "setup", "None"}
LogsArgs == {"None", "logs"}

\* a callback: the handlers it defines, and those of them that raise
CallbackKinds == {[handlers |-> h, raising |-> r] : h \in SUBSET HandlerNames,
                                                     r \in SUBSET HandlerNames}
Callbacks == {c \in CallbackKinds : c.raising \subseteq c.handlers}

\* hasattr(self, hookpoint), line 53
hasattr(c, hookpoint) == hookpoint \in c.handlers \cup BaseAttributes

\* Callback.run(hookpoint, logs) of child i, lines 39-55: the handler
\* invocations it makes and the error it raises
Callback_run(c, i, hookpoint, logs) ==
    IF hookpoint = "None"
    THEN \* line 53: hasattr(self, None)
         [invoked |-> <<>>, error |-> "TypeError"]
    ELSE IF ~hasattr(c, hookpoint)
    THEN [invoked |-> <<>>, error |-> "none"]
    ELSE IF hookpoint \in c.handlers
    THEN \* lines 54-55
         [invoked |-> << [child |-> i, hookpoint |-> hookpoint, logs |-> logs] >>,
          error |-> IF hookpoint \in c.raising THEN "HandlerError" ELSE "none"]
    ELSE \* line 55: the attribute is no handler and the call of it fails
         [invoked |-> <<>>, error |-> "TypeError"]

\* the loop of CallbackPipeline.run going on after a child raised
RECURSIVE PipelineLoopIsolating(_, _, _, _, _)
PipelineLoopIsolating(cs, i, hookpoint, logs, acc) ==
    IF i > Len(cs) THEN acc
    ELSE LET r == Callback_run(cs[i], i, hookpoint, logs)
         IN  PipelineLoopIsolating(cs, i + 1, hookpoint, logs,
                 [calls |-> Append(acc.calls,
                                   [child |-> i, hookpoint |-> hookpoint, logs |-> logs]),
                  invoked |-> acc.invoked \o r.invoked,
                  error |-> IF acc.error # "none" THEN acc.error ELSE r.error])

\* CallbackPipeline.run(hookpoint, logs), lines 64-79: the loop from child i on
RECURSIVE PipelineLoop(_, _, _, _, _)
PipelineLoop(cs, i, hookpoint, logs, acc) ==
    IF i > Len(cs) \/ acc.error # "none" THEN acc
    ELSE LET r == Callback_run(cs[i], i, hookpoint, logs)
         IN  PipelineLoop(cs, i + 1, hookpoint, logs,
                 [calls |-> Append(acc.calls,
                                   [child |-> i, hookpoint |-> hookpoint, logs |-> logs]),
                  invoked |-> acc.invoked \o r.invoked,
                  error |-> r.error])

CallbackPipeline_run(cs, hookpoint, logs) ==
    PipelineLoop(cs, 1, hookpoint, logs, [calls |-> <<>>, invoked |-> <<>>, error |-> "none"])

(***************************************************************************)
(* hookpoint_guard, lines 82-127, and guard, lines 130-151.                 *)
(***************************************************************************)
\* the base hookpoints given to guard; 'on_fit' is the default of line 84
Hookpoints == {"on_fit", "on_epoch"}
\* line 104: f'{hookpoint}_begin'
start_hookpoint(hookpoint) ==
    CASE hookpoint = "on_fit" -> "on_fit_begin"
      [] hookpoint = "on_epoch" -> "on_epoch_begin"
\* line 105: f'{hookpoint}_end'
end_hookpoint(hookpoint) ==
    CASE hookpoint = "on_fit" -> "on_fit_end"
      [] hookpoint = "on_epoch" -> "on_epoch_end"

\* how a call of the wrapped function hands over its callbacks: not at all, as the
\* keyword argument callbacks (a pipeline, or None), or as a positional argument
CallbackInputs == {"absent", "keyword", "keyword_none", "positional"}

\* what the wrapped function does: it returns a value (None or a dict) or raises
FuncOutcomes == {[raises |-> FALSE, value |-> v] : v \in LogsArgs}
                    \cup {[raises |-> TRUE, value |-> "None"]}

RunEvent(hookpoint, logs) == [ev |-> "callbacks.run", hookpoint |-> hookpoint, logs |-> logs]
CallEvent == [ev |-> "func", hookpoint |-> "None", logs |-> "None"]

\* lines 111-114: callbacks is taken from kwargs only
KwargsCallbacks(input) == IF input = "keyword" THEN "pipeline" ELSE "None"

\* func_wrap(*args, **kwargs), lines 107-125
func_wrap(cs, hookpoint, input, func) ==
    LET cbs == KwargsCallbacks(input)
        begin == CallbackPipeline_run(cs, start_hookpoint(hookpoint), "None")
        end == CallbackPipeline_run(cs, end_hookpoint(hookpoint), func.value)
    IN  IF cbs # "None" /\ begin.error # "none"
        THEN \* line 117 raises
             [trace |-> << RunEvent(start_hookpoint(hookpoint), "None") >>,
              invoked |-> begin.invoked, result |-> "None", error |-> begin.error]
        ELSE LET t1 == IF cbs # "None"
                       THEN << RunEvent(start_hookpoint(hookpoint), "None") >> ELSE <<>>
                 i1 == IF cbs # "None" THEN begin.invoked ELSE <<>>
             IN  IF func.raises
                 THEN \* line 119 raises
                      [trace |-> Append(t1, CallEvent), invoked |-> i1,
                       result |-> "None", error |-> "FuncError"]
                 ELSE IF cbs # "None"
                 THEN \* lines 121-125
                      [trace |-> t1 \o << CallEvent,
                                          RunEvent(end_hookpoint(hookpoint), func.value) >>,
                       invoked |-> i1 \o end.invoked,
                       result |-> IF end.error = "none" THEN func.value ELSE "None",
                       error |-> end.error]
                 ELSE [trace |-> Append(t1, CallEvent), invoked |-> i1,
                       result |-> func.value, error |-> "none"]

NoGuarded == [op |-> "none", hookpoint |-> "None", input |-> "absent",
              func |-> [raises |-> FALSE, value |-> "None"],
              trace |-> <<>>, invoked |-> <<>>, result |-> "None", error |-> "none"]

NoRun == [op |-> "none", child |-> 0, hookpoint |-> "None", logs |-> "None",
          calls |-> <<>>, invoked |-> <<>>, error |-> "none"]

CbInit ==
    /\ callbacks \in UNION {[1..n -> Callbacks] : n \in 0..MaxChildren}
    /\ cb = NoRun
    /\ gd = NoGuarded

\* a run call on one callback
CallbackRun ==
    /\ \E i \in 1..Len(callbacks), hookpoint \in HookpointArgs, logs \in LogsArgs :
          LET r == Callback_run(callbacks[i], i, hookpoint, logs)
          IN  cb' = [op |-> "Callback.run", child |-> i, hookpoint |-> hookpoint,
                     logs |-> logs, calls |-> <<>>, invoked |-> r.invoked,
                     error |-> r.error]
    /\ gd' = NoGuarded
    /\ UNCHANGED callbacks
    /\ UNCHANGED <<calVars, cmdVars, cfgVars>>

\* a run call on the pipeline
CallbackPipelineRun ==
    /\ \E hookpoint \in HookpointArgs, logs \in LogsArgs :
          LET r == CallbackPipeline_run(callbacks, hookpoint, logs)
          IN  cb' = [op |-> "CallbackPipeline.run", child |-> 0, hookpoint |-> hookpoint,
                     logs |-> logs, calls |-> r.calls, invoked |-> r.invoked,
                     error |-> r.error]
    /\ gd' = NoGuarded
    /\ UNCHANGED callbacks
    /\ UNCHANGED <<calVars, cmdVars, cfgVars>>

\* a call of a function wrapped by guard(hookpoint)
GuardedCall ==
    /\ \E hookpoint \in Hookpoints, input \in CallbackInputs, func \in FuncOutcomes :
          LET r == func_wrap(callbacks, hookpoint, input, func)
          IN  gd' = [op |-> "func_wrap", hookpoint |-> hookpoint, input |-> input,
                     func |-> func, trace |-> r.trace, invoked |-> r.invoked,
                     result |-> r.result, error |-> r.error]
    /\ cb' = NoRun
    /\ UNCHANGED callbacks
    /\ UNCHANGED <<calVars, cmdVars, cfgVars>>

CbNext ==
    \/ CallbackRun
    \/ CallbackPipelineRun
    \/ GuardedCall

(***************************************************************************)
(* OrderedPipelineConfig (configurations/pipeline.py).                      *)
(***************************************************************************)
\* stage names, numbered; none of them is 'ordering', the configuration's own field
StageNames == 1..MaxStages

\* the order argument: None (the default of line 18) or an int
NoOrder == [isNone |-> TRUE, k |-> 0]
Order(k) == [isNone |-> FALSE, k |-> k]
Orders == {NoOrder} \cup {Order(k) : k \in -1..MaxOrder}

\* the field 'ordering': absent until lines 30-37 add it with value []
NoOrdering == [exists |-> FALSE, items |-> <<>>]

\* list.insert taken as an assignment to position i
list_insert_replacing(l, i, x) ==
    LET n == Len(l)
        j == IF i < 0 THEN (IF i + n < 0 THEN 0 ELSE i + n)
             ELSE IF i > n THEN n ELSE i
    IN  SubSeq(l, 1, j) \o <<x>> \o SubSeq(l, j + 2, n)

\* list.insert(i, x) of Python: a negative index counts from the end, and an index
\* outside the list is moved to the nearer end
list_insert(l, i, x) ==
    LET n == Len(l)
        j == IF i < 0 THEN (IF i + n < 0 THEN 0 ELSE i + n)
             ELSE IF i > n THEN n ELSE i
    IN  SubSeq(l, 1, j) \o <<x>> \o SubSeq(l, j + 1, n)

\* add_pipeline_component(name, order=order), lines 8-42, on a configuration with
\* the pipeline-tagged fields f and the ordering field o
add_pipeline_component(f, o, name, order) ==
    LET o1 == IF o.exists THEN o ELSE [exists |-> TRUE, items |-> <<>>]
    IN  [pipeline_fields |-> f \cup {name},
         ordering |-> [o1 EXCEPT !.items = IF order.isNone
                                             THEN Append(o1.items, name)
                                             ELSE list_insert(o1.items, order.k, name)]]

PipelineInit ==
    /\ pipeline_fields = {}
    /\ ordering = NoOrdering
    /\ pl_calls = <<>>

\* a call of add_pipeline_component with a name not yet in the configuration
AddPipelineComponent ==
    /\ \E name \in StageNames \ pipeline_fields, order \in Orders :
          LET r == add_pipeline_component(pipeline_fields, ordering, name, order)
          IN  /\ pipeline_fields' = r.pipeline_fields
              /\ ordering' = r.ordering
              /\ pl_calls' = Append(pl_calls, [name |-> name, order |-> order,
                                                before |-> ordering.items,
                                                after |-> r.ordering.items])
    /\ UNCHANGED <<calVars, cmdVars, cbVars, ssVars>>

PipelineNext == AddPipelineComponent

(***************************************************************************)
(* TunableConfiguration.get_search_space (configurations/calibrator.py).    *)
(***************************************************************************)
\* the registration fields of a configuration that point to a child configuration,
\* in declaration order
ChildOrder == <<"c", "d">>
ChildNames == {ChildOrder[i] : i \in 1..Len(ChildOrder)}

\* a configuration class is named by the field names that lead to it from the root;
\* a dotted key 'c.d.x' is the sequence <<"c", "d", "x">>
ClassPaths == UNION {[1..n -> ChildNames] : n \in 0..(MaxConfigs - 1)}
Parent(path) == SubSeq(path, 1, Len(path) - 1)
ClassTrees == {T \in SUBSET ClassPaths :
                  /\ <<>> \in T
                  /\ Cardinality(T) <= MaxConfigs
                  /\ \A path \in T : path # <<>> => Parent(path) \in T}

\* the search_space of a calibration configuration: parameter name -> candidates
SpaceKeys == {"x"}
SpaceVals == {1, 2}
OwnSpaces == UNION {[K -> SpaceVals] : K \in SUBSET SpaceKeys}

\* a configuration class: whether it is a TunableConfiguration, whether its
\* calibration_config is set, and the search space that calibration_config declares
ConfigClasses ==
    {[tunable |-> TRUE, calibration_config |-> "key", search_space |-> sp] : sp \in OwnSpaces}
        \cup {[tunable |-> TRUE, calibration_config |-> "None", search_space |-> <<>>],
              [tunable |-> FALSE, calibration_config |-> "None", search_space |-> <<>>]}

Registries == {r \in UNION {[T -> ConfigClasses] : T \in ClassTrees} : r[<<>>].tunable}

\* the parent_key argument: None or a dotted key
NoParentKey == [isNone |-> TRUE, path |-> <<>>]
ParentKey(path) == [isNone |-> FALSE, path |-> path]
\* lines 63-64: f'{parent_key}.{child.name}' if parent_key is not None else f'{child.name}'
ChildKey(parent_key, name) == ParentKey(parent_key.path \o <<name>>)

\* lines 70-71: the own entries under f'{parent_key}.{key}', or under key
search_space_of(sp, parent_key) ==
    [k \in {parent_key.path \o <<key>> : key \in DOMAIN sp} |-> sp[k[Len(k)]]]

\* {**search_space, **buffer}: the entries of the buffer kept on equal keys
MergeKeepingBuffer(buffer, sp) ==
    [k \in DOMAIN buffer \cup DOMAIN sp |-> IF k \in DOMAIN buffer THEN buffer[k] ELSE sp[k]]

\* line 72: {**buffer, **search_space}
Merge(buffer, sp) ==
    [k \in DOMAIN buffer \cup DOMAIN sp |-> IF k \in DOMAIN sp THEN sp[k] ELSE buffer[k]]

RECURSIVE get_search_space(_, _, _, _)
RECURSIVE ChildrenLoop(_, _, _, _, _)

\* lines 54-64: the loop over the children of class cls, from the names left
ChildrenLoop(reg, cls, names, buffer, parent_key) ==
    IF names = <<>> THEN [error |-> "none", buffer |-> buffer]
    ELSE LET child == Append(cls, Head(names))
         IN  IF child \notin DOMAIN reg
             THEN ChildrenLoop(reg, cls, Tail(names), buffer, parent_key)
             ELSE IF ~reg[child].tunable
             THEN [error |-> "NonTunableConfigurationException", buffer |-> buffer]
             ELSE LET r == get_search_space(reg, child, buffer,
                                            ChildKey(parent_key, Head(names)))
                  IN  IF r.error # "none" THEN r
                      ELSE ChildrenLoop(reg, cls, Tail(names), r.buffer, parent_key)

\* cls.get_search_space(buffer, parent_key), lines 41-74; buffer None is the empty dict
get_search_space(reg, cls, buffer, parent_key) ==
    IF reg[cls].calibration_config = "None"
    THEN [error |-> "UnsetCalibrationConfigurationException", buffer |-> buffer]
    ELSE LET r == ChildrenLoop(reg, cls, ChildOrder, buffer, parent_key)
         IN  IF r.error # "none" THEN r
             ELSE [error |-> "none",
                   buffer |-> Merge(r.buffer,
                                    search_space_of(reg[cls].search_space, parent_key))]

\* the buffer argument of a call from outside: None, or a dict of the caller's
\* with the value 0 under some keys
CallerKeys == {<<"x">>, <<"c", "x">>}
NoBuffer == [isNone |-> TRUE, dict |-> <<>>]
Buffers == {NoBuffer} \cup {[isNone |-> FALSE, dict |-> [k \in K |-> 0]] : K \in SUBSET CallerKeys}
ParentKeys == {NoParentKey, ParentKey(<<"p">>)}

NoSearch == [op |-> "none", buffer |-> NoBuffer, parent_key |-> NoParentKey,
             result |-> <<>>, error |-> "none"]

SearchSpaceInit ==
    /\ registry \in Registries
    /\ search = NoSearch

\* a call of get_search_space on the root class
GetSearchSpace ==
    /\ \E buffer \in Buffers, parent_key \in ParentKeys :
          LET r == get_search_space(registry, <<>>, buffer.dict, parent_key)
          IN  search' = [op |-> "get_search_space", buffer |-> buffer, parent_key |-> parent_key,
                     result |-> IF r.error = "none" THEN r.buffer ELSE <<>>,
                     error |-> r.error]
    /\ UNCHANGED registry
    /\ UNCHANGED <<calVars, cmdVars, cbVars, plVars>>

SearchSpaceNext == GetSearchSpace

(***************************************************************************)
(* The specifications: one per part of the program, the other parts at rest.*)
(***************************************************************************)
CmdRest ==
    /\ fs = {}
    /\ metadata = {}
    /\ runs_registry = <<>>
    /\ tracked = [k \in Keys |-> NonePath]
    /\ cmd = NoCommand

CalRest ==
    /\ kind = "grid"
    /\ validate_condition = "minimization"
    /\ db_name = "None"
    /\ use_mongo = FALSE
    /\ max_evaluations = 1
    /\ validator = NoValidator
    /\ validator_args = "None"
    /\ search_space = NoSpace
    /\ validator0 = NoValidator
    /\ pc = "idle"
    /\ combinations = <<>>
    /\ idx = 1
    /\ calibration_results = <<>>
    /\ evalLog = <<>>
    /\ lastEval = NoEval
    /\ outcome = NoOutcome
    /\ trials = NoTrials
    /\ best_trial = "none"
    /\ pickle_file = NoFile
    /\ workers = 1
    /\ driver = NoDriver
    /\ queue = <<>>
    /\ workers_results = <<>>
    /\ mongo_best = NoCombination

CbRest ==
    /\ callbacks = <<>>
    /\ cb = NoRun
    /\ gd = NoGuarded

SsRest ==
    /\ registry = [path \in {<<>>} |->
                      [tunable |-> TRUE, calibration_config |-> "None", search_space |-> <<>>]]
    /\ search = NoSearch

CfgRest == PipelineInit /\ SsRest

CalibratorInit == CalInit /\ CmdRest /\ CbRest /\ CfgRest
SpecCalibrator == CalibratorInit /\ [][CalNext]_vars

\* the run with the networked store under a scheduler that lets every process
\* take its next step: the caller, the pool's tasks, whose subprocesses exit, and
\* the driver, whose search completes unless fmin raises
MongoFairness ==
    /\ WF_vars(MongoStartDriver) /\ WF_vars(MongoSubmit) /\ WF_vars(MongoSubmitted)
    /\ WF_vars(WorkerClear) /\ WF_vars(WorkerPopen) /\ WF_vars(WorkerReturn)
    /\ WF_vars(MongoWorkersGot) /\ WF_vars(MongoJoin) /\ WF_vars(MongoGet)
    /\ WF_vars(MongoFinish)
    /\ WF_vars(DriverPut) /\ WF_vars(FeederSend) /\ WF_vars(DriverExit)
SpecCalibratorLive == CalibratorInit /\ [][CalNext]_vars /\ MongoFairness

CommandsInit == CmdInit /\ CalRest /\ CbRest /\ CfgRest
SpecCommands == CommandsInit /\ [][CmdNext]_vars
SpecTrain == CommandsInit /\ [][TrainNext]_vars

CallbacksInit == CbInit /\ CalRest /\ CmdRest /\ CfgRest
SpecCallbacks == CallbacksInit /\ [][CbNext]_vars

PipelineConfigInit == PipelineInit /\ SsRest /\ CalRest /\ CmdRest /\ CbRest
SpecPipeline == PipelineConfigInit /\ [][PipelineNext]_vars

SearchSpaceConfigInit == SearchSpaceInit /\ PipelineInit /\ CalRest /\ CmdRest /\ CbRest
SpecSearchSpace == SearchSpaceConfigInit /\ [][SearchSpaceNext]_vars

(***************************************************************************)
(* Claims about the calibrators, checked under SpecCalibrator.              *)
(***************************************************************************)
\* the set of values of a sequence
Range(s) == {s[i] : i \in 1..Len(s)}

\* every combination of one candidate value per parameter
CartesianProduct(lists) == {c \in Combination : \A p \in Params : c[p] \in Range(lists[p])}

\* the grid search is past its prerequisites
GridRunning == kind = "grid" /\ pc \in {"grid_loop", "done"} /\ ~validator.isNone
                   /\ ~search_space.isNone

\* C1: GridSearchCalibrator.run, with a validator set and a search space of candidate
\* lists, calls evaluate_combination on the combinations in enumeration order without
\* a gap; when it returns it has evaluated every combination of the cartesian product
\* exactly once, as many as the product of the list lengths; and it stops before the
\* last combination only when an evaluation raised.
C1_GridEvaluatesEveryCombination ==
    GridRunning =>
        /\ Len(evalLog) <= Len(combinations)
        /\ \A i \in 1..Len(evalLog) : evalLog[i] = combinations[i]
        /\ outcome.status = "returned" =>
              /\ Len(evalLog) = Len(search_space.lists["a"]) * Len(search_space.lists["b"])
              /\ \A c \in CartesianProduct(search_space.lists) :
                    Cardinality({i \in 1..Len(evalLog) : evalLog[i] = c}) = 1
              /\ Range(evalLog) = CartesianProduct(search_space.lists)
        /\ (pc = "done" /\ Len(evalLog) < Len(combinations)) =>
              /\ outcome.status = "raised"
              /\ lastEval.status = "raised"
              /\ outcome.error = lastEval.error

C1_Witness ==
    /\ kind = "grid" /\ pc = "done" /\ outcome.status = "returned"
    /\ Len(search_space.lists["a"]) = 2 /\ Len(search_space.lists["b"]) = 2
    /\ Len(evalLog) = 4

\* C2: GridSearchCalibrator.run returns a (score, combination) pair of the evaluated
\* ones such that no evaluated score is below the returned score and no earlier
\* combination has the same score; under maximization no evaluated raw metric value
\* is above the raw value of the returned combination.
C2_GridReturnsMinimum ==
    (kind = "grid" /\ pc = "done" /\ outcome.status = "returned") =>
        \E i \in 1..Len(calibration_results) :
            /\ calibration_results[i] = <<outcome.score, outcome.combination>>
            /\ \A j \in 1..Len(calibration_results) :
                  ~Lt(calibration_results[j][1], outcome.score)
            /\ \A j \in 1..(i - 1) : calibration_results[j][1] # outcome.score
            /\ validate_condition = "maximization" =>
                  \A j \in 1..Len(calibration_results) :
                      ~Lt(Neg(outcome.score), Neg(calibration_results[j][1]))

\* C3: after any number of evaluate_combination calls the shared validator holds the
\* configuration values set_validator stored, and no validator run was a run of the
\* shared validator: each ran a delta copy.
C3_SharedValidatorUnchanged ==
    /\ validator = validator0
    /\ lastEval.called => lastEval.ran \in {"copy", "none"}

C3_Witness ==
    /\ Len(evalLog) >= 2
    /\ lastEval.called /\ lastEval.ran = "copy"
    /\ lastEval.combination # validator.config

\* C4: evaluate_combination, the copy having run, returns exactly when the metric
\* value is a real number, the value itself under minimization and its negation
\* under maximization; for every other value it raises and gives no score.
C4_EvaluateSucceedsOnRealNumbers ==
    (lastEval.called /\ lastEval.ran # "none") =>
        /\ lastEval.status = "returned" <=> IsRealNumber(lastEval.metric)
        /\ lastEval.status = "returned" =>
              lastEval.score.v = IF validate_condition = "maximization"
                                 THEN -lastEval.metric.v ELSE lastEval.metric.v
        /\ ~IsRealNumber(lastEval.metric) =>
              lastEval.status = "raised" /\ lastEval.score = NoneVal

\* C5: a run with a missing prerequisite ends with that prerequisite's error before
\* it evaluates a combination and before it opens or writes a trial store.
MissingPrerequisite ==
    IF validator.isNone THEN "UnsetValidatorException"
    ELSE IF search_space.isNone THEN "MissingSearchSpaceException"
    ELSE IF kind = "hyperopt" /\ db_name = "None" THEN "DBNotSpecifiedException"
    ELSE "none"

Count(events, e) == Cardinality({i \in 1..Len(events) : events[i].ev = e})

\* a command that calls run_component_from_key once
SingleRun == cmd.op \in {"run_component_from_key", "routine_inference"}

\* C6: when run_name is given, the temporary path exists and the final path exists
\* already, run_component_from_key does not rename: the disk is as it was, both
\* paths are still there, one warning is logged, no error is raised and track_run
\* records the temporary path for the key.
C6_ExistingFinalPathIsKept ==
    /\ \A i \in 1..Len(cmd.fin) :
          LET f == cmd.fin[i]
          IN  (f.run_name # "None" /\ f.tmp_existed /\ f.final_existed) =>
                  /\ ~f.renamed
                  /\ f.fs_after = f.fs_before
                  /\ f.warnings = 1
                  /\ f.tracked_as = f.tmp
    /\ (SingleRun /\ Len(cmd.fin) = 1) =>
          LET f == cmd.fin[1]
          IN  (f.run_name # "None" /\ f.tmp_existed /\ f.final_existed) =>
                  /\ cmd.error = "none"
                  /\ fs = f.fs_before
                  /\ f.tmp \in fs /\ f.final \in fs
                  /\ Count(cmd.events, "warning") = 1
                  /\ Count(cmd.events, "rename") = 0
                  /\ Count(cmd.events, "track") = 1
                  /\ tracked[f.key] = f.tmp

C6_Witness ==
    /\ cmd.op = "run_component_from_key"
    /\ Len(cmd.fin) = 1
    /\ cmd.fin[1].run_name # "None" /\ cmd.fin[1].tmp_existed /\ cmd.fin[1].final_existed
    /\ tracked[cmd.fin[1].key] = cmd.fin[1].tmp

\* C7: routine_multiple_inference calls routine_inference once per position i, in
\* list order, with (routine_paths[i], routine_names[i]); an absent list gives None
\* at every position, a supplied list its own elements, also when both are supplied.
C7_MultipleInferencePairsTheLists ==
    (cmd.op = "routine_multiple_inference" /\ ~(cmd.paths.isNone /\ cmd.names.isNone)) =>
        LET z == NormalizedKeepingNames(cmd.paths, cmd.names)
            n == Min(Len(z.paths), Len(z.names))
        IN  /\ Len(cmd.icalls) <= n
            /\ \A i \in 1..Len(cmd.icalls) : cmd.icalls[i] = <<z.paths[i], z.names[i]>>
            /\ cmd.error = "none" => Len(cmd.icalls) = n

\* C8: routine_inference with neither path nor name raises AttributeError
\* (InvalidInput) before the manager is retrieved and before any file is looked at;
\* with a name or a path whose directory holds no command_metadata.json it raises
\* FileNotFoundError (NotFound); in both cases no helper is resolved and no
\* component is built or run.
C8_InferenceErrors ==
    (cmd.op = "routine_inference" /\ Len(cmd.icalls) = 1) =>
        LET routine_path == cmd.icalls[1][1]
            routine_name == cmd.icalls[1][2]
            dir == IF routine_path.type = "None" THEN routine_name ELSE routine_path.dir
            nothing_run == /\ Count(cmd.events, "helper") = 0
                           /\ Count(cmd.events, "build") = 0
                           /\ Count(cmd.events, "run") = 0
        IN  /\ (routine_path.type = "None" /\ routine_name = "None") =>
                  cmd.error = "AttributeError" /\ cmd.events = <<>>
            /\ (~(routine_path.type = "None" /\ routine_name = "None")
                    /\ dir \notin metadata) =>
                  cmd.error = "FileNotFoundError" /\ nothing_run

(***************************************************************************)
(* Claims about the callbacks, checked under SpecCallbacks.                 *)
(***************************************************************************)
\* C9: Callback.run(hookpoint, logs) invokes a handler only when the callback
\* defines a handler of that name, and passes logs; for every name the callback
\* defines no handler for, the call does nothing and raises no error.
C9_CallbackRunDispatch ==
    (cb.op = "Callback.run" /\ cb.hookpoint # "None") =>
        LET c == callbacks[cb.child]
        IN  /\ cb.invoked # <<>> =>
                  /\ cb.hookpoint \in c.handlers
                  /\ cb.invoked = << [child |-> cb.child, hookpoint |-> cb.hookpoint,
                                      logs |-> cb.logs] >>
            /\ cb.hookpoint \notin c.handlers =>
                  cb.invoked = <<>> /\ cb.error = "none"

\* the children, among the first n, that define a handler for the hookpoint
Implementing(n, hookpoint) == {i \in 1..n : hookpoint \in callbacks[i].handlers}

\* C10: CallbackPipeline.run(hookpoint, logs) calls run with the same hookpoint and
\* logs on the children in declared order; the handlers invoked are those of the
\* called children that implement the hookpoint, in that order; when a child raises,
\* no later child is called and the error is the pipeline's; otherwise every child
\* is called.
C10_PipelineBroadcast ==
    cb.op = "CallbackPipeline.run" =>
        LET n == Len(cb.calls)
        IN  /\ n <= Len(callbacks)
            /\ \A i \in 1..n :
                  cb.calls[i] = [child |-> i, hookpoint |-> cb.hookpoint, logs |-> cb.logs]
            /\ Len(cb.invoked) = Cardinality(Implementing(n, cb.hookpoint))
            /\ \A k \in 1..Len(cb.invoked) :
                  /\ cb.invoked[k].child \in Implementing(n, cb.hookpoint)
                  /\ cb.invoked[k].hookpoint = cb.hookpoint
                  /\ cb.invoked[k].logs = cb.logs
                  /\ \A j \in 1..(k - 1) : cb.invoked[j].child < cb.invoked[k].child
            /\ \A i \in 1..(n - 1) :
                  Callback_run(callbacks[i], i, cb.hookpoint, cb.logs).error = "none"
            /\ cb.error = "none" => n = Len(callbacks)
            /\ cb.error # "none" =>
                  /\ n >= 1
                  /\ Callback_run(callbacks[n], n, cb.hookpoint, cb.logs).error = cb.error

C10_Witness ==
    /\ cb.op = "CallbackPipeline.run"
    /\ Len(callbacks) = 2
    /\ cb.hookpoint \in callbacks[1].handlers
    /\ cb.hookpoint \in callbacks[1].raising
    /\ cb.hookpoint \in callbacks[2].handlers
    /\ Len(cb.calls) = 1
    /\ cb.error = "HandlerError"

\* C11: a function wrapped by the hookpoint guard for base name H and called with a
\* callbacks input fires "H_begin" once before the wrapped call and "H_end" once after
\* it with the call's return value as logs, and returns that value; called without a
\* callbacks input it fires no hookpoint and returns what the function returns.
C11_GuardFiresBeginAndEnd ==
    (gd.op = "func_wrap" /\ gd.error = "none") =>
        /\ gd.result = gd.func.value
        /\ gd.input \in {"keyword", "positional"} =>
              gd.trace = << RunEvent(start_hookpoint(gd.hookpoint), "None"),
                            CallEvent,
                            RunEvent(end_hookpoint(gd.hookpoint), gd.func.value) >>
        /\ gd.input = "absent" => gd.trace = << CallEvent >>

(***************************************************************************)
(* Claims about the configurations.                                         *)
(***************************************************************************)
\* the names of the calls c[1..n], in call order
CallNames(c, n) == [i \in 1..n |-> c[i].name]

\* C12: add_pipeline_component without explicit order appends the name to the
\* ordering list; with explicit order k the name is at position k afterwards, the
\* names before position k stay and those from position k on move back by one; n
\* calls without order give the n names in call order, and a following call with
\* order 0 puts its name first.
C12_OrderingPositions ==
    /\ \A i \in 1..Len(pl_calls) :
          LET c == pl_calls[i]
              k == c.order.k
          IN  /\ c.order.isNone => c.after = Append(c.before, c.name)
              /\ (~c.order.isNone /\ k >= 0) =>
                    /\ Len(c.after) = Len(c.before) + 1
                    /\ Len(c.after) > k
                    /\ c.after[k + 1] = c.name
                    /\ \A j \in 1..Len(c.before) :
                          c.before[j] = c.after[IF j <= k THEN j ELSE j + 1]
    /\ LET n == Len(pl_calls)
       IN  /\ (\A i \in 1..n : pl_calls[i].order.isNone) =>
                 ordering.items = CallNames(pl_calls, n)
           /\ (n >= 1 /\ pl_calls[n].order = Order(0)
                   /\ \A i \in 1..(n - 1) : pl_calls[i].order.isNone) =>
                 ordering.items = <<pl_calls[n].name>> \o CallNames(pl_calls, n - 1)

C14_SearchSpaceIsFlattened ==
    (search.op = "get_search_space" /\ search.error = "none") =>
        LET prefix == search.parent_key.path
            declared == {d \in (DOMAIN registry) \X SpaceKeys :
                            d[2] \in DOMAIN registry[d[1]].search_space}
            keys == {prefix \o d[1] \o <<d[2]>> : d \in declared}
        IN  /\ \A d \in declared :
                  /\ prefix \o d[1] \o <<d[2]>> \in DOMAIN search.result
                  /\ search.result[prefix \o d[1] \o <<d[2]>>] = registry[d[1]].search_space[d[2]]
            /\ DOMAIN search.result = keys \cup DOMAIN search.buffer.dict
            /\ \A k \in DOMAIN search.buffer.dict \ keys : search.result[k] = search.buffer.dict[k]
            /\ (/\ search.buffer.isNone /\ search.parent_key.isNone
                /\ Cardinality(DOMAIN registry) = 2
                /\ \A path \in DOMAIN registry :
                      Cardinality(DOMAIN registry[path].search_space) = 1) =>
                  \E name \in ChildNames, key \in SpaceKeys :
                      /\ <<name>> \in DOMAIN registry
                      /\ DOMAIN search.result = {<<key>>, <<name, key>>}
                      /\ Cardinality(DOMAIN search.result) = 2

C14_Witness ==
    /\ search.op = "get_search_space" /\ search.error = "none"
    /\ <<"c", "d">> \in DOMAIN registry
    /\ <<"c", "d", "x">> \in DOMAIN search.result
    /\ <<"c", "x">> \in DOMAIN search.result
    /\ <<"x">> \in DOMAIN search.result
    /\ <<"x">> \in DOMAIN search.buffer.dict
    /\ search.result[<<"x">>] # search.buffer.dict[<<"x">>]
    /\ search.result[<<"c", "x">>] # search.result[<<"x">>]

EveryTrialFailed ==
    /\ kind = "hyperopt" /\ ~use_mongo /\ pc = "done"
    /\ trials.store \in {"new", "loaded"}
    /\ evalLog # <<>>
    /\ Candidates(trials.history) = {}

\* C17: when every trial of a hyperopt run failed, run does not raise: it returns
\* with the placeholder {state: "N/A"} as best trial and, without the networked
\* store, has written the trial history to the pickle file.
C17_AllTrialsFailedIsRecovered ==
    EveryTrialFailed =>
        /\ outcome.status = "returned"
        /\ best_trial = "N/A"
        /\ pickle_file = [exists |-> TRUE, history |-> trials.history]

(***************************************************************************)
(* Claims about the training commands, checked under SpecTrain, and about  *)
(* the steps of run_component_from_key, checked under SpecCommands.         *)
(***************************************************************************)
TrainSingle ==
    /\ cmd.op \in {"routine_train", "routine_train_from_key"}
    /\ Len(cmd.tcalls) = 1
    /\ Len(cmd.runs) = 1

\* the run_args the caller of the training command supplied, as a dict
Supplied == IF cmd.tcalls[1].run_args.isNone THEN {} ELSE cmd.tcalls[1].run_args.d

\* the value the component's run received for a key the training command computes
ReceivedOrComputed(key, computed) ==
    /\ \A p \in cmd.runs[1].args : p[1] = key =>
           p = (IF key \in KeysOf(Supplied) THEN CHOOSE q \in Supplied : q[1] = key
                ELSE <<key, computed>>)
    /\ key \in KeysOf(cmd.runs[1].args)

\* C18 as stated: routine_train and routine_train_from_key pass to the component
\* run arguments in which helper and is_training are the caller's values when
\* run_args has those keys and otherwise the resolved helper and true, and
\* every other key the caller supplied is passed through unchanged
C18_EveryOtherKeyUnchanged ==
    TrainSingle =>
        /\ ReceivedOrComputed("helper", ResolvedHelper(cmd.tcalls[1].helper_key))
        /\ ReceivedOrComputed("is_training", "True")
        /\ \A p \in Supplied : p[1] \notin {"helper", "is_training"} =>
               p \in cmd.runs[1].args

\* C18: routine_train and routine_train_from_key pass to the component run
\* arguments in which helper and is_training are the caller's values when
\* run_args has those keys and otherwise the resolved helper and true; every
\* other key the caller supplied is passed through unchanged, except
\* serialization_path when the component's run declares that parameter, which
\* then holds the path the manager allocated for the run; the component receives
\* no key besides these
C18_TrainRunArguments ==
    TrainSingle =>
        LET received == cmd.runs[1].args
            injected == TakesPath(cmd.runs[1].key)
        IN  /\ ReceivedOrComputed("helper", ResolvedHelper(cmd.tcalls[1].helper_key))
            /\ ReceivedOrComputed("is_training", "True")
            /\ \A p \in Supplied :
                   p[1] \notin {"helper", "is_training"}
                   /\ ~(p[1] = "serialization_path" /\ injected)
                   => p \in received
            /\ injected => /\ <<"serialization_path", ManagedPath>> \in received
                           /\ <<"serialization_path", "caller_path">> \notin received
            /\ KeysOf(received) = KeysOf(Supplied) \cup {"helper", "is_training"}
                                  \cup (IF injected THEN {"serialization_path"} ELSE {})
            /\ \A p, q \in received : p[1] = q[1] => p = q
            /\ cmd.tcalls[1].op = "routine_train" =>
                   cmd.runs[1].key = RegistrationKey(cmd.tcalls[1].target)
            /\ cmd.tcalls[1].op = "routine_train_from_key" =>
                   cmd.runs[1].key = cmd.tcalls[1].target

C18_Witness ==
    /\ TrainSingle
    /\ cmd.op = "routine_train"
    /\ cmd.tcalls[1].helper_key = "h1"
    /\ Supplied = {<<"epochs", "3">>, <<"serialization_path", "caller_path">>}
    /\ TakesPath(cmd.runs[1].key)
    /\ cmd.runs[1].args = {<<"helper", "helper:h1">>, <<"is_training", "True">>,
                           <<"epochs", "3">>, <<"serialization_path", ManagedPath>>}

\* C19: routine_multiple_train calls routine_train_from_key on the keys in
\* list order with its own helper key and serialize flag, each call made after
\* the run before it returned; when no run fails there is one call per key, and
\* when the run for a key fails the error is the command's and no call is made
\* for a later key
C19_MultipleTrainIsSequential ==
    cmd.op = "routine_multiple_train" =>
        LET m == cmd.mcalls[1]
            n == Len(cmd.tcalls)
            steps == SelectSeq(cmd.events, LAMBDA e : e.ev \in {"helper", "run"})
        IN  /\ Len(cmd.mcalls) = 1
            /\ n <= Len(m.keys)
            /\ \A i \in 1..n :
                   /\ cmd.tcalls[i] = TrainCall("routine_train_from_key", m.keys[i],
                                                m.helper_key, m.serialize, "None", NoArgs)
                   /\ cmd.runs[i].key = m.keys[i]
            /\ Len(cmd.runs) = n
            /\ Len(steps) = 2 * n
            /\ \A i \in 1..n : steps[2 * i - 1].ev = "helper" /\ steps[2 * i].ev = "run"
            /\ cmd.error = "none" => n = Len(m.keys) /\ Len(cmd.fin) = n
            /\ cmd.error # "none" => n >= 1 /\ Len(cmd.fin) = n - 1

C19_Witness ==
    /\ cmd.op = "routine_multiple_train"
    /\ Len(cmd.mcalls[1].keys) = 2
    /\ cmd.error # "none"
    /\ Len(cmd.tcalls) = 1

\* the run, save, rename and track steps of the command, in the order they happened
Steps == SelectSeq(cmd.events, LAMBDA e : e.ev \in {"run", "save", "rename", "track"})
StepRank(e) == CASE e.ev = "run" -> 1 [] e.ev = "save" -> 2 [] e.ev = "rename" -> 3
                 [] e.ev = "track" -> 4
StepsOf(ev) == {i \in 1..Len(Steps) : Steps[i].ev = ev}

\* C20: in run_component_from_key the steps happen in the order run, save,
\* rename, track, each at most once; save happens only when serialize is true,
\* with the path given to run; track_run is called only when the effective
\* output path exists on disk at the end, and with it: the final path when the
\* rename happened and the temporary path otherwise; a run that returned and
\* whose effective path exists is tracked
C20_StepOrder ==
    cmd.op = "run_component_from_key" =>
        LET c == cmd.rcalls[1]
            tmp == cmd.runs[1].path
            effective == IF StepsOf("rename") # {} THEN Final(c.run_name) ELSE tmp
        IN  /\ Len(cmd.rcalls) = 1 /\ Len(cmd.runs) = 1
            /\ \A i, j \in 1..Len(Steps) : i < j => StepRank(Steps[i]) < StepRank(Steps[j])
            /\ Steps # <<>> /\ Steps[1] = Ev("run", c.key, tmp)
            /\ \A i \in StepsOf("save") : c.serialize /\ Steps[i] = Ev("save", c.key, tmp)
            /\ (c.serialize /\ cmd.error = "none") => StepsOf("save") # {}
            /\ \A i \in StepsOf("rename") :
                   c.run_name # "None" /\ Steps[i] = Ev("rename", c.key, Final(c.run_name))
            /\ \A i \in StepsOf("track") :
                   /\ effective \in fs
                   /\ Steps[i] = Ev("track", c.key, effective)
                   /\ tracked[c.key] = effective
            /\ (cmd.error = "none" /\ effective \in fs) => StepsOf("track") # {}

C20_Witness ==
    /\ cmd.op = "run_component_from_key"
    /\ Len(Steps) = 4
    /\ Steps[3].ev = "rename"
    /\ Steps[4] = Ev("track", cmd.rcalls[1].key, Final(cmd.rcalls[1].run_name))

(***************************************************************************)
(* The guard when the wrapped function raises, checked under SpecCallbacks. *)
(***************************************************************************)
\* the positions of the trace of the guarded call at which the hookpoint was run
FiredAt(hookpoint) ==
    {i \in 1..Len(gd.trace) : gd.trace[i].ev = "callbacks.run"
                              /\ gd.trace[i].hookpoint = hookpoint}

\* the wrapped function was called with a callbacks input and raised
GuardedFunctionRaised ==
    /\ gd.op = "func_wrap"
    /\ gd.input \in {"keyword", "positional"}
    /\ gd.func.raises
    /\ \E i \in 1..Len(gd.trace) : gd.trace[i] = CallEvent

\* C21: when a function wrapped by the hookpoint guard is called with a callbacks
\* input and the wrapped function raises, the begin hookpoint has fired exactly
\* once, before the call, the end hookpoint has not fired, and the error the caller
\* gets is the one the function raised.
C21_RaisingFunctionSkipsEnd ==
    GuardedFunctionRaised =>
        /\ Cardinality(FiredAt(start_hookpoint(gd.hookpoint))) = 1
        /\ gd.trace[1] = RunEvent(start_hookpoint(gd.hookpoint), "None")
        /\ FiredAt(end_hookpoint(gd.hookpoint)) = {}
        /\ gd.error = "FuncError"

(***************************************************************************)
(* The worker tasks and the end of the networked run, checked under        *)
(* SpecCalibrator.                                                          *)
(***************************************************************************)
\* task i of the run takes the step of line 286: it clears the scratch directory
ClearsBy(i) ==
    /\ i \in 1..Len(workers_results) /\ i \in 1..Len(workers_results')
    /\ workers_results[i] = "submitted"
    /\ workers_results'[i] = "cleared"

\* the subprocess of a task other than i is running in the scratch directory
OtherSubprocessRunning(i) ==
    \E j \in 1..Len(workers_results) : j # i /\ workers_results[j] = "subprocess"

\* C22: during one run with the networked store no worker task clears the scratch
\* directory of the workers while the subprocess another task of the run started
\* with that directory as its working directory is running.
C22_NoClearUnderRunningSubprocess ==
    [][\A i \in 1..MaxWorkers : ClearsBy(i) => ~OtherSubprocessRunning(i)]_vars

\* the driver process ended without a result: fmin raised in it
DriverRaised == driver.state = "exited" /\ driver.best = NoCombination

\* C23: a run with the networked store in which the driver's search completes and
\* the subprocess of every worker task exits eventually returns: the caller does
\* not wait forever at the join of the driver process or at the read of its queue.
C23_NetworkedRunReturns ==
    (pc = "mongo_search") ~> (pc = "done" \/ DriverRaised)

========================================================================
